---- MODULE Spec2Model ----
(***************************************************************************)
(* Model of experiments/10_end_to_end/10_end_to_end.py: the pickling run   *)
(* (read_state_dicts, explode, optimize_memory, create_interpolators,      *)
(* dump) and the two reconstruction paths (reconstruct1, reconstructn).    *)
(*                                                                         *)
(* Units.  teff is in kelvin; logg and Z are in half-dex units (logg 8 is  *)
(* 4.0 dex, Z -1 is -0.5 dex); line parameters are integers.  Every value  *)
(* of the model is therefore exactly representable in the widths that      *)
(* optimize_memory picks.  An interpolated value is a rational, kept as a  *)
(* numerator vector and a positive denominator.                            *)
(***************************************************************************)
EXTENDS Integers, Sequences, FiniteSets, TLC

VARIABLES files, pc, line_stats, df_gp, df, dtypes, interpolators, pickle,
          err, op, qpts, res

vars == <<files, pc, line_stats, df_gp, df, dtypes, interpolators, pickle,
          err, op, qpts, res>>

----------------------------------------------------------------------------
(* Bounds and input domains *)

MaxBatch == 2

(* Two grids of state files: teff x logg at one Z, and logg x Z at one teff *)
GridA == {5000, 6000} \X {8, 10} \X {0}
GridB == {5000} \X {8, 10} \X {-1, 0}
Grids == {GridA, GridB}

Centers == {10000, 10500}

WlGrid == <<10000, 10250>>

(* Query points: the coordinate the two grids share, the far corner of each *)
(* grid, the point halfway between two coordinates of both grids, and a     *)
(* point outside every grid                                                 *)
QueryPoints ==
  {<<5000, 8, 0>>, <<6000, 10, 0>>, <<5000, 10, -1>>, <<5000, 9, 0>>, <<7000, 8, 0>>}

(* Program constants *)
Sentinel == -1000
Threshold == -100
NanFill == 1

----------------------------------------------------------------------------
(* Generic helpers *)

Abs(x) == IF x < 0 THEN -x ELSE x

RECURSIVE SeqSum(_)
SeqSum(s) == IF s = <<>> THEN 0 ELSE Head(s) + SeqSum(Tail(s))

RECURSIVE Concat(_)
Concat(ss) == IF ss = <<>> THEN <<>> ELSE Head(ss) \o Concat(Tail(ss))

Range(s) == {s[i] : i \in DOMAIN s}

Perms(S) ==
  {s \in [1..Cardinality(S) -> S] : \A i, j \in DOMAIN s : i # j => s[i] # s[j]}

RECURSIVE SetToSortedSeq(_)
SetToSortedSeq(S) ==
  IF S = {} THEN <<>>
  ELSE LET m == CHOOSE x \in S : \A y \in S : x <= y
       IN <<m>> \o SetToSortedSeq(S \ {m})

----------------------------------------------------------------------------
(* The upstream line-fit state of one grid point: what torch.load returns   *)
(* for the file T<teff>G<logg>Z<Z>.pt.  The fitted values differ from grid  *)
(* point to grid point and from line to line.                               *)

Code(t, g, z) == ((t - 5000) \div 1000) * 4 + ((g - 8) \div 2) * 2 + (0 - z)
LineNo(c) == (c - 10000) \div 500

FitAmp(t, g, z, c) == 0 - (1 + Code(t, g, z) + 10 * LineNo(c))
FitSigma(t, g, z, c) == 1 + Code(t, g, z) + LineNo(c)
FitGamma(t, g, z, c) == 2 + 2 * Code(t, g, z) + LineNo(c)
FitShift(t, g, z, c) == c + 1 + Code(t, g, z)

StateFile(coord, lines) ==
  LET t == coord[1]
      g == coord[2]
      z == coord[3]
      cs == SetToSortedSeq(lines)
  IN [teff |-> t, logg |-> g, Z |-> z,
      center |-> cs,
      shift_center |-> [i \in DOMAIN cs |-> FitShift(t, g, z, cs[i])],
      amp |-> [i \in DOMAIN cs |-> FitAmp(t, g, z, cs[i])],
      sigma |-> [i \in DOMAIN cs |-> FitSigma(t, g, z, cs[i])],
      gamma |-> [i \in DOMAIN cs |-> FitGamma(t, g, z, cs[i])]]

(* A directory: each grid coordinate has no file, or a file with any set of *)
(* lines (the empty set included).                                          *)
Absent == {0}
FileOptions == {Absent} \cup SUBSET Centers
Directory(opt) == {StateFile(c, opt[c]) : c \in {x \in DOMAIN opt : opt[x] # Absent}}
Directories == UNION {{Directory(opt) : opt \in [G -> FileOptions]} : G \in Grids}

----------------------------------------------------------------------------
(* read_state_dicts: one row per file, in listdir order *)

read_state_dicts(dir) == Perms(dir)

(* pickling_run line 57: df_gp = df[['teff', 'logg', 'Z']] *)
GridPoints(stats) == [i \in DOMAIN stats |->
  [teff |-> stats[i].teff, logg |-> stats[i].logg, Z |-> stats[i].Z]]

(* DataFrame.explode on several columns: an empty list-like counts as one   *)
(* element and gives one row of missing values.                             *)
mylen(x) == IF Len(x) > 0 THEN Len(x) ELSE 1

MatchingCounts(row) ==
  /\ mylen(row.center) = mylen(row.amp)
  /\ mylen(row.center) = mylen(row.sigma)
  /\ mylen(row.center) = mylen(row.gamma)
  /\ mylen(row.center) = mylen(row.shift_center)

NaRow(row) ==
  [teff |-> row.teff, logg |-> row.logg, Z |-> row.Z, na |-> TRUE,
   center |-> 0, shift_center |-> 0, amp |-> 0, sigma |-> 0, gamma |-> 0]

ExplodeRow(row) ==
  IF Len(row.center) = 0 THEN <<NaRow(row)>>
  ELSE [i \in 1..Len(row.center) |->
         [teff |-> row.teff, logg |-> row.logg, Z |-> row.Z, na |-> FALSE,
          center |-> row.center[i], shift_center |-> row.shift_center[i],
          amp |-> row.amp[i], sigma |-> row.sigma[i], gamma |-> row.gamma[i]]]

explode(stats) == Concat([i \in DOMAIN stats |-> ExplodeRow(stats[i])])

----------------------------------------------------------------------------
(* optimize_memory: pd.to_numeric(downcast=...) per column.  The integer    *)
(* column goes to the narrowest signed width holding its values (no value   *)
(* of the model needs more than 32 bits); a float                           *)
(* column goes to 32 bits when every value survives the cast within the     *)
(* tolerance, which for the integer values of the model means unchanged.    *)

IntCols == {"teff"}
FloatCols == {"logg", "Z", "center", "shift_center", "amp", "sigma", "gamma"}

ColValues(d, col) == {d[i][col] : i \in {k \in DOMAIN d : col \in {"teff", "logg", "Z"} \/ ~d[k].na}}

IntWidth(vals) ==
  IF \A v \in vals : v >= -128 /\ v <= 127 THEN 8
  ELSE IF \A v \in vals : v >= -32768 /\ v <= 32767 THEN 16
  ELSE 32

RECURSIVE Ulp32(_)
Ulp32(a) == IF a < 16777216 THEN 1 ELSE 2 * Ulp32(a \div 2)

Float32(v) ==
  LET u == Ulp32(Abs(v))
      q == Abs(v) \div u
      r == Abs(v) % u
      m == IF 2 * r > u \/ (2 * r = u /\ q % 2 = 1) THEN (q + 1) * u ELSE q * u
  IN IF v < 0 THEN 0 - m ELSE m

FloatWidth(vals) == IF \A v \in vals : Float32(v) = v THEN 32 ELSE 64

Downcast(col, v, width) == IF col \in FloatCols /\ width = 32 THEN Float32(v) ELSE v

ColWidths(d) == [col \in IntCols \cup FloatCols |->
  IF col \in IntCols THEN IntWidth(ColValues(d, col)) ELSE FloatWidth(ColValues(d, col))]

optimize_memory(d) ==
  LET w == ColWidths(d)
  IN [i \in DOMAIN d |->
       [teff |-> Downcast("teff", d[i].teff, w["teff"]),
        logg |-> Downcast("logg", d[i].logg, w["logg"]),
        Z |-> Downcast("Z", d[i].Z, w["Z"]),
        na |-> d[i].na,
        center |-> Downcast("center", d[i].center, w["center"]),
        shift_center |-> Downcast("shift_center", d[i].shift_center, w["shift_center"]),
        amp |-> Downcast("amp", d[i].amp, w["amp"]),
        sigma |-> Downcast("sigma", d[i].sigma, w["sigma"]),
        gamma |-> Downcast("gamma", d[i].gamma, w["gamma"])]]

----------------------------------------------------------------------------
(* create_interpolators *)

(* df.value_counts('center').index: the distinct centers, most frequent     *)
(* first; missing centers are dropped; the order among ties is any.         *)
LineSet(d) == {d[i].center : i \in {k \in DOMAIN d : ~d[k].na}}
LineCount(d, line) == Cardinality({k \in DOMAIN d : ~d[k].na /\ d[k].center = line})
value_counts(d) ==
  {s \in Perms(LineSet(d)) :
     \A i, j \in DOMAIN s : i < j => LineCount(d, s[i]) >= LineCount(d, s[j])}

(* df.query('center == @line') *)
QueryLine(d, line) == SelectSeq(d, LAMBDA r : ~r.na /\ r.center = line)

(* .merge(df_gp, how='right', on=['teff', 'logg', 'Z']): the rows follow    *)
(* df_gp; a grid point without a match keeps its keys and gets missing      *)
(* values in the other columns.                                             *)
SameKey(r, p) == r.teff = p.teff /\ r.logg = p.logg /\ r.Z = p.Z

MergeOne(dl, p) ==
  LET m == SelectSeq(dl, LAMBDA r : SameKey(r, p))
  IN IF m = <<>> THEN <<NaRow(p)>> ELSE m

(* Variant: how='inner', the grid points without a match give no row *)
MergeInner(dl, gp) ==
  Concat([i \in DOMAIN gp |-> SelectSeq(dl, LAMBDA r : SameKey(r, gp[i]))])

MergeRight(dl, gp) == Concat([i \in DOMAIN gp |-> MergeOne(dl, gp[i])])

(* .fillna(-1000) *)
FillRow(r) ==
  IF r.na
  THEN [r EXCEPT !.na = FALSE, !.center = Sentinel, !.shift_center = Sentinel,
                 !.amp = Sentinel, !.sigma = Sentinel, !.gamma = Sentinel]
  ELSE r
(* Variant: only the amplitude column is filled *)
fillna_amp_only(d) ==
  [i \in DOMAIN d |-> IF d[i].na THEN [d[i] EXCEPT !.na = FALSE, !.amp = Sentinel] ELSE d[i]]

fillna(d) == [i \in DOMAIN d |-> FillRow(d[i])]

(* df_line.sort_values(['teff', 'logg', 'Z']) *)
KeyLess(a, b) ==
  \/ a.teff < b.teff
  \/ a.teff = b.teff /\ a.logg < b.logg
  \/ a.teff = b.teff /\ a.logg = b.logg /\ a.Z < b.Z

(* Variant: the frame is left in the order of the join *)
sort_values_omitted(d) == d

RECURSIVE sort_values(_)
sort_values(d) ==
  IF d = <<>> THEN <<>>
  ELSE LET k == CHOOSE i \in DOMAIN d :
                  /\ \A j \in DOMAIN d : ~KeyLess(d[j], d[i])
                  /\ \A j \in 1..(i - 1) : KeyLess(d[i], d[j])
       IN <<d[k]>> \o sort_values(SubSeq(d, 1, k - 1) \o SubSeq(d, k + 1, Len(d)))

(* Series.unique(): the distinct values in order of first appearance *)
RECURSIVE unique(_)
unique(s) ==
  IF s = <<>> THEN <<>>
  ELSE LET u == unique(SubSeq(s, 1, Len(s) - 1))
           x == s[Len(s)]
       IN IF x \in Range(u) THEN u ELSE Append(u, x)

Column(d, col) == [i \in DOMAIN d |-> d[i][col]]

(* df_line[['amp', 'sigma', 'gamma', 'shift_center']].to_numpy() *)
to_numpy(d) == [i \in DOMAIN d |-> <<d[i].amp, d[i].sigma, d[i].gamma, d[i].shift_center>>]

(* ndarray.reshape(nt, nl, nz, 4), row-major *)
FlatIndex(i, j, l, nl, nz) == ((i - 1) * nl + (j - 1)) * nz + l
reshape(flat, nt, nl, nz) ==
  [idx \in (1..nt) \X (1..nl) \X (1..nz) |-> flat[FlatIndex(idx[1], idx[2], idx[3], nl, nz)]]

StrictlyAscending(s) == \A i \in 1..(Len(s) - 1) : s[i] < s[i + 1]

(* One iteration of the loop of create_interpolators: the interpolator of   *)
(* one line, or the error raised.  The field line is not part of the        *)
(* interpolator: it records which line the entry was built for.             *)
BuildLine(d, gp, line) ==
  LET df_line == sort_values(fillna(MergeRight(QueryLine(d, line), gp)))
      ts == unique(Column(df_line, "teff"))
      gs == unique(Column(df_line, "logg"))
      zs == unique(Column(df_line, "Z"))
  IN IF Len(df_line) # Len(ts) * Len(gs) * Len(zs)
     THEN [ok |-> FALSE, err |-> "ValueError"]
     ELSE IF ~(StrictlyAscending(ts) /\ StrictlyAscending(gs) /\ StrictlyAscending(zs))
     THEN [ok |-> FALSE, err |-> "ValueError"]
     ELSE [ok |-> TRUE,
           itp |-> [line |-> line, grid |-> <<ts, gs, zs>>,
                    values |-> reshape(to_numpy(df_line), Len(ts), Len(gs), Len(zs))]]

RECURSIVE BuildAll(_, _, _)
BuildAll(d, gp, order) ==
  IF order = <<>> THEN [ok |-> TRUE, list |-> <<>>, err |-> "none"]
  ELSE LET rest == BuildAll(d, gp, SubSeq(order, 1, Len(order) - 1))
           one == BuildLine(d, gp, order[Len(order)])
       IN IF ~rest.ok THEN rest
          ELSE IF ~one.ok THEN [ok |-> FALSE, list |-> <<>>, err |-> one.err]
          ELSE [ok |-> TRUE, list |-> Append(rest.list, one.itp), err |-> "none"]

(* Variant: a line whose rows cannot be reshaped is skipped *)
RECURSIVE BuildSkipping(_, _, _)
BuildSkipping(d, gp, order) ==
  IF order = <<>> THEN [ok |-> TRUE, list |-> <<>>, err |-> "none"]
  ELSE LET rest == BuildSkipping(d, gp, SubSeq(order, 1, Len(order) - 1))
           one == BuildLine(d, gp, order[Len(order)])
       IN IF one.ok THEN [rest EXCEPT !.list = Append(rest.list, one.itp)] ELSE rest

create_interpolators(d, gp, order) == BuildAll(d, gp, order)

----------------------------------------------------------------------------
(* RegularGridInterpolator(points, values, method='linear').__call__        *)

(* bounds_error is left at its default: a coordinate outside the grid raises *)
InBounds(itp, p) ==
  \A d \in 1..3 : p[d] >= itp.grid[d][1] /\ p[d] <= itp.grid[d][Len(itp.grid[d])]

(* The cell of x on one axis and the two weights, as numerators over den.   *)
(* An axis of one point has the weight 1 on that point.                     *)
AxisCell(grid, x) ==
  IF Len(grid) = 1
  THEN [lo |-> 1, hi |-> 1, wlo |-> 1, whi |-> 0, den |-> 1]
  ELSE LET cnt == Cardinality({k \in DOMAIN grid : grid[k] < x})
           lo == IF cnt < 1 THEN 1
                 ELSE IF cnt > Len(grid) - 1 THEN Len(grid) - 1 ELSE cnt
       IN [lo |-> lo, hi |-> lo + 1, wlo |-> grid[lo + 1] - x, whi |-> x - grid[lo],
           den |-> grid[lo + 1] - grid[lo]]

(* The multilinear interpolant over the eight corners of the cell: the four *)
(* channels as numerators over the common denominator den.                  *)
EvalCells(vals, c1, c2, c3) ==
  [num |-> [ch \in 1..4 |->
      c1.wlo * c2.wlo * c3.wlo * vals[<<c1.lo, c2.lo, c3.lo>>][ch]
    + c1.wlo * c2.wlo * c3.whi * vals[<<c1.lo, c2.lo, c3.hi>>][ch]
    + c1.wlo * c2.whi * c3.wlo * vals[<<c1.lo, c2.hi, c3.lo>>][ch]
    + c1.wlo * c2.whi * c3.whi * vals[<<c1.lo, c2.hi, c3.hi>>][ch]
    + c1.whi * c2.wlo * c3.wlo * vals[<<c1.hi, c2.lo, c3.lo>>][ch]
    + c1.whi * c2.wlo * c3.whi * vals[<<c1.hi, c2.lo, c3.hi>>][ch]
    + c1.whi * c2.whi * c3.wlo * vals[<<c1.hi, c2.hi, c3.lo>>][ch]
    + c1.whi * c2.whi * c3.whi * vals[<<c1.hi, c2.hi, c3.hi>>][ch]],
   den |-> c1.den * c2.den * c3.den]

Evaluate(itp, p) ==
  EvalCells(itp.values, AxisCell(itp.grid[1], p[1]), AxisCell(itp.grid[2], p[2]),
            AxisCell(itp.grid[3], p[3]))

(* The call on an array xi whose last axis has length 3: the result has the *)
(* shape xi.shape[:-1] + (4,).                                               *)
ItpCall(itp, xshape, pts) ==
  IF \E i \in DOMAIN pts : ~InBounds(itp, pts[i])
  THEN [ok |-> FALSE, err |-> "ValueError", shape |-> <<>>, rows |-> <<>>]
  ELSE [ok |-> TRUE, err |-> "none",
        shape |-> SubSeq(xshape, 1, Len(xshape) - 1) \o <<4>>,
        rows |-> [i \in DOMAIN pts |-> Evaluate(itp, pts[i])]]

(* ndarray.squeeze(): the axes of length one are dropped *)
squeeze(a) == [a EXCEPT !.shape = SelectSeq(a.shape, LAMBDA n : n # 1)]

----------------------------------------------------------------------------
(* The emulator forward model (SparseLinearEmulator.forward) over wl.       *)
(* A flux value is a numerator over den, or not-a-number when some line has *)
(* a width that is not positive.                                            *)
Depth(r, w) == r.num[1] + 3 * r.num[2] + 5 * r.num[3] + 7 * (r.num[4] - w * r.den)

SLEForward(wl, output) ==
  [i \in DOMAIN wl |->
    IF \E k \in DOMAIN output : output[k].num[2] <= 0 \/ output[k].num[3] <= 0
    THEN [nan |-> TRUE, num |-> 0, den |-> 1]
    ELSE [nan |-> FALSE,
          num |-> SeqSum([k \in DOMAIN output |-> Depth(output[k], wl[i])]),
          den |-> output[1].den]]

(* np.nan_to_num(x, nan=1) *)
nan_to_num(x) ==
  [i \in DOMAIN x |-> IF x[i].nan THEN [nan |-> FALSE, num |-> NanFill, den |-> 1] ELSE x[i]]

----------------------------------------------------------------------------
(* reconstruct1 *)

(* Variant: the threshold test of the batch path *)
Keep1_threshold(r) == r.num[1] > Threshold * r.den

(* line 68: (r := interpolator(point).squeeze())[0] != -1000 *)
Keep1(r) == r.num[1] # Sentinel * r.den

Failure(e, n) ==
  [kind |-> "error", err |-> e, flux |-> <<>>, outputs |-> <<>>, sel |-> <<>>, calls |-> n]

(* Lines 68: the loop over the interpolators from the n-th on; acc holds    *)
(* the surviving rows so far, each with the index of its interpolator.      *)
Step1(acc, a, n) ==
  IF ~a.ok THEN [ok |-> FALSE, rows |-> <<>>, sel |-> <<>>, calls |-> n]
  ELSE IF Keep1(squeeze(a).rows[1])
  THEN [ok |-> TRUE, rows |-> Append(acc.rows, squeeze(a).rows[1]),
        sel |-> Append(acc.sel, n), calls |-> n]
  ELSE [acc EXCEPT !.calls = n]

RECURSIVE Gather1(_, _, _, _)
Gather1(list, point, n, acc) ==
  IF n > Len(list) \/ ~acc.ok THEN acc
  ELSE Gather1(list, point, n + 1, Step1(acc, ItpCall(list[n], <<3>>, <<point>>), n))

(* Variant: an empty line set gives the flat continuum *)
reconstruct1_continuum(wl, point, list) ==
  LET g == Gather1(list, point, 1, [ok |-> TRUE, rows |-> <<>>, sel |-> <<>>, calls |-> 0])
  IN IF ~g.ok THEN Failure("ValueError", g.calls)
     ELSE [kind |-> "flux", err |-> "none",
           flux |-> IF g.rows = <<>>
                    THEN [i \in DOMAIN wl |-> [nan |-> FALSE, num |-> NanFill, den |-> 1]]
                    ELSE nan_to_num(SLEForward(wl, g.rows)),
           outputs |-> g.rows, sel |-> g.sel, calls |-> Len(list)]

reconstruct1(wl, point, list) ==
  LET g == Gather1(list, point, 1, [ok |-> TRUE, rows |-> <<>>, sel |-> <<>>, calls |-> 0])
  IN IF ~g.ok THEN Failure("ValueError", g.calls)
     ELSE IF g.rows = <<>> THEN Failure("ValueError", Len(list))
     ELSE [kind |-> "flux", err |-> "none",
           flux |-> nan_to_num(SLEForward(wl, g.rows)),
           outputs |-> g.rows, sel |-> g.sel, calls |-> Len(list)]

----------------------------------------------------------------------------
(* reconstructn *)

(* Variant: every row is kept *)
KeepN_unfiltered(r) == TRUE

(* line 82: r[0] > -100 *)
KeepN(r) == r.num[1] > Threshold * r.den

(* Lines 79-83: the loop over the interpolators from the n-th on.  results  *)
(* is iterated along its first axis: when squeeze has left one axis the     *)
(* elements are scalars and r[0] raises IndexError.                         *)
StepN(acc, results, n) ==
  IF ~results.ok THEN [acc EXCEPT !.ok = FALSE, !.err = results.err, !.calls = n]
  ELSE IF results.shape[1] = 0 THEN [acc EXCEPT !.calls = n]
  ELSE IF Len(results.shape) = 1
  THEN [acc EXCEPT !.ok = FALSE, !.err = "IndexError", !.calls = n]
  ELSE [ok |-> TRUE, err |-> "none",
        raw |-> [i \in DOMAIN acc.raw |->
                  IF KeepN(results.rows[i])
                  THEN Append(acc.raw[i], results.rows[i]) ELSE acc.raw[i]],
        sel |-> [i \in DOMAIN acc.sel |->
                  IF KeepN(results.rows[i]) THEN Append(acc.sel[i], n) ELSE acc.sel[i]],
        calls |-> n]

RECURSIVE GatherN(_, _, _, _)
GatherN(list, points, n, acc) ==
  IF n > Len(list) \/ ~acc.ok THEN acc
  ELSE GatherN(list, points, n + 1,
               StepN(acc, squeeze(ItpCall(list[n], <<Len(points), 3>>, points)), n))

reconstructn(wl, points, list) ==
  LET g == GatherN(list, points, 1,
                   [ok |-> TRUE, err |-> "none", raw |-> [i \in DOMAIN points |-> <<>>],
                    sel |-> [i \in DOMAIN points |-> <<>>], calls |-> 0])
  IN IF ~g.ok
     THEN [kind |-> "error", err |-> g.err, flux |-> <<>>, outputs |-> g.raw,
           sel |-> g.sel, calls |-> g.calls]
     ELSE IF points = <<>> \/ \E i \in DOMAIN points : g.raw[i] = <<>>
     THEN [kind |-> "error", err |-> "ValueError", flux |-> <<>>, outputs |-> g.raw,
           sel |-> g.sel, calls |-> g.calls]
     ELSE [kind |-> "flux", err |-> "none",
           flux |-> [i \in DOMAIN points |-> nan_to_num(SLEForward(wl, g.raw[i]))],
           outputs |-> g.raw, sel |-> g.sel, calls |-> g.calls]

Batches == UNION {[1..n -> QueryPoints] : n \in 0..MaxBatch}

----------------------------------------------------------------------------
NoResult == [kind |-> "none"]

Init ==
  /\ files \in Directories
  /\ pc = "start"
  /\ line_stats = <<>>
  /\ df_gp = <<>>
  /\ df = <<>>
  /\ dtypes = <<>>
  /\ interpolators = <<>>
  /\ pickle = <<"absent">>
  /\ err = "none"
  /\ op = "none"
  /\ qpts = <<>>
  /\ res = NoResult

(* pickling_run line 56 *)
ReadStateDicts ==
  /\ pc = "start"
  /\ \E stats \in read_state_dicts(files) : line_stats' = stats
  /\ pc' = "read"
  /\ UNCHANGED <<files, df_gp, df, dtypes, interpolators, pickle, err, op, qpts, res>>

(* pickling_run lines 57-58; an empty frame has no columns to select *)
Explode ==
  /\ pc = "read"
  /\ IF line_stats = <<>>
     THEN /\ pc' = "failed"
          /\ err' = "KeyError"
          /\ UNCHANGED <<df_gp, df>>
     ELSE IF \E i \in DOMAIN line_stats : ~MatchingCounts(line_stats[i])
     THEN /\ pc' = "failed"
          /\ err' = "ValueError"
          /\ df_gp' = GridPoints(line_stats)
          /\ UNCHANGED df
     ELSE /\ pc' = "exploded"
          /\ df_gp' = GridPoints(line_stats)
          /\ df' = explode(line_stats)
          /\ UNCHANGED err
  /\ UNCHANGED <<files, line_stats, dtypes, interpolators, pickle, op, qpts, res>>

(* pickling_run line 60 *)
OptimizeMemory ==
  /\ pc = "exploded"
  /\ df' = optimize_memory(df)
  /\ dtypes' = ColWidths(df)
  /\ pc' = "optimized"
  /\ UNCHANGED <<files, line_stats, df_gp, interpolators, pickle, err, op, qpts, res>>

(* pickling_run line 63 *)
CreateInterpolators ==
  /\ pc = "optimized"
  /\ \E order \in value_counts(df) :
       LET r == create_interpolators(df, df_gp, order)
       IN IF r.ok
          THEN /\ interpolators' = r.list
               /\ pc' = "built"
               /\ UNCHANGED err
          ELSE /\ pc' = "failed"
               /\ err' = r.err
               /\ UNCHANGED interpolators
  /\ UNCHANGED <<files, line_stats, df_gp, df, dtypes, pickle, op, qpts, res>>

(* pickling_run line 64; the process ends and its frames are gone *)
Dump ==
  /\ pc = "built"
  /\ pickle' = <<"bank", interpolators>>
  /\ pc' = "dumped"
  /\ line_stats' = <<>>
  /\ df_gp' = <<>>
  /\ df' = <<>>
  /\ dtypes' = <<>>
  /\ interpolators' = <<>>
  /\ UNCHANGED <<files, err, op, qpts, res>>

(* __main__ line 106 / inference_test line 97: a later process loads the bank *)
Load ==
  /\ pc = "dumped"
  /\ interpolators' = pickle[2]
  /\ pc' = "loaded"
  /\ UNCHANGED <<files, line_stats, df_gp, df, dtypes, pickle, err, op, qpts, res>>

(* rms_loss line 94: one evaluation of reconstruct1 *)
Reconstruct1 ==
  /\ pc = "loaded"
  /\ \E point \in QueryPoints :
       /\ res' = reconstruct1(WlGrid, point, interpolators)
       /\ qpts' = <<point>>
  /\ op' = "reconstruct1"
  /\ pc' = "done"
  /\ UNCHANGED <<files, line_stats, df_gp, df, dtypes, interpolators, pickle, err>>

(* __main__ line 110 *)
Reconstructn ==
  /\ pc = "loaded"
  /\ \E points \in Batches :
       /\ res' = reconstructn(WlGrid, points, interpolators)
       /\ qpts' = points
  /\ op' = "reconstructn"
  /\ pc' = "done"
  /\ UNCHANGED <<files, line_stats, df_gp, df, dtypes, interpolators, pickle, err>>

Next ==
  \/ ReadStateDicts
  \/ Explode
  \/ OptimizeMemory
  \/ CreateInterpolators
  \/ Dump
  \/ Load
  \/ Reconstruct1
  \/ Reconstructn

Spec == Init /\ [][Next]_vars
----------------------------------------------------------------------------
(* Vocabulary of the properties *)

CoordOf(f) == <<f.teff, f.logg, f.Z>>
KeysOf(dir) == {CoordOf(f) : f \in dir}
HasLine(f, line) == \E i \in DOMAIN f.center : f.center[i] = line
Fitted(f, line) ==
  LET i == CHOOSE j \in DOMAIN f.center : f.center[j] = line
  IN <<f.amp[i], f.sigma[i], f.gamma[i], f.shift_center[i]>>
DirLines(dir) == UNION {Range(f.center) : f \in dir}
HoleFree(line) == \A f \in files : HasLine(f, line)
Times(v, den) == [ch \in 1..4 |-> v[ch] * den]
Rectangular(keys) ==
  keys = {k[1] : k \in keys} \X {k[2] : k \in keys} \X {k[3] : k \in keys}
BankLoaded == pc \in {"loaded", "done"}
AfterCreate == pc = "built" \/ (pc = "failed" /\ dtypes # <<>>)
JoinedTable(line) == fillna(MergeRight(QueryLine(df, line), df_gp))
RowsAt(t, key) == Cardinality({i \in DOMAIN t : <<t[i].teff, t[i].logg, t[i].Z>> = key})
GridKeys == {<<df_gp[i].teff, df_gp[i].logg, df_gp[i].Z>> : i \in DOMAIN df_gp}
IrregularBuild == ~Rectangular(KeysOf(files)) /\ DirLines(files) # {}

----------------------------------------------------------------------------
(* C1: for a line fitted at every grid point, the interpolator built for it *)
(* returns, at every grid coordinate, the four values fitted for that line  *)
(* at that grid point.                                                      *)
C1_RoundTripAtNodes ==
  BankLoaded =>
    \A k \in DOMAIN interpolators :
      HoleFree(interpolators[k].line) =>
        \A f \in files :
          /\ InBounds(interpolators[k], CoordOf(f))
          /\ LET r == Evaluate(interpolators[k], CoordOf(f))
             IN r.num = Times(Fitted(f, interpolators[k].line), r.den)

(* C1 case: a full grid of four files, a line fitted in all of them, and a *)
(* reconstruction at one of the grid coordinates.                          *)
C1_Witness ==
  /\ pc = "done" /\ op = "reconstruct1" /\ res.kind = "flux"
  /\ Cardinality(files) = 4
  /\ qpts[1] \in KeysOf(files)
  /\ \E k \in DOMAIN interpolators : HoleFree(interpolators[k].line)

(* C2: where a line was not fitted at a grid coordinate, its interpolator   *)
(* returns the sentinel in all four channels at that coordinate.            *)
C2_SentinelAtHoles ==
  BankLoaded =>
    \A k \in DOMAIN interpolators : \A f \in files :
      ~HasLine(f, interpolators[k].line) =>
        /\ InBounds(interpolators[k], CoordOf(f))
        /\ LET r == Evaluate(interpolators[k], CoordOf(f))
           IN r.num = Times(<<Sentinel, Sentinel, Sentinel, Sentinel>>, r.den)

(* C2 case: a full grid of four files and a reconstruction at a coordinate *)
(* where some line of the bank was not fitted.                             *)
C2_Witness ==
  /\ pc = "done" /\ op = "reconstruct1" /\ res.kind = "flux"
  /\ Cardinality(files) = 4
  /\ \E k \in DOMAIN interpolators : \E f \in files :
       /\ ~HasLine(f, interpolators[k].line)
       /\ qpts[1] = CoordOf(f)

(* C6 as stated: the joined table of every line has exactly one row for     *)
(* every combination of the teff, logg and Z values seen in the grid.       *)
C6_JoinCoversProduct ==
  AfterCreate =>
    \A line \in LineSet(df) :
      \A key \in {k[1] : k \in GridKeys} \X {k[2] : k \in GridKeys} \X {k[3] : k \in GridKeys} :
        RowsAt(JoinedTable(line), key) = 1

(* C6 amended: the joined table of every line has exactly one row for every *)
(* ingested grid point, filled with the sentinel where the line was not     *)
(* fitted, and no other row; the reshape succeeds exactly when the ingested *)
(* grid points are the full product of their coordinate values.             *)
C6_JoinCoversGridPoints ==
  AfterCreate =>
    \A line \in LineSet(df) :
      LET t == JoinedTable(line)
      IN /\ Len(t) = Len(df_gp)
         /\ \A key \in GridKeys : RowsAt(t, key) = 1
         /\ \A i \in DOMAIN t :
              /\ <<t[i].teff, t[i].logg, t[i].Z>> \in GridKeys
              /\ \/ \E j \in DOMAIN df : t[i] = df[j] /\ df[j].center = line
                 \/ /\ t[i].amp = Sentinel /\ t[i].sigma = Sentinel
                    /\ t[i].gamma = Sentinel /\ t[i].shift_center = Sentinel
                    /\ ~\E j \in DOMAIN df :
                          ~df[j].na /\ df[j].center = line /\ SameKey(df[j], t[i])
         /\ (pc = "built" <=> Rectangular(GridKeys))

(* C6 case: a bank built over four grid points with a line that is missing *)
(* at one of them.                                                         *)
C6_Witness ==
  /\ pc = "built"
  /\ Len(df_gp) = 4
  /\ \E line \in LineSet(df) : \E i \in DOMAIN df_gp :
       ~\E j \in DOMAIN df : ~df[j].na /\ df[j].center = line /\ SameKey(df[j], df_gp[i])

(* C7 as stated: after the explode, every grid point with arrays of length  *)
(* N has exactly N rows, row i carrying entry i of each array, and the      *)
(* table has no other rows.                                                 *)
C7_OneRowPerLine ==
  pc = "exploded" =>
    /\ \A i \in DOMAIN line_stats :
         LET f == line_stats[i]
             rows == SelectSeq(df, LAMBDA r : SameKey(r, f))
         IN /\ Len(rows) = Len(f.center)
            /\ \A j \in DOMAIN rows :
                 /\ ~rows[j].na
                 /\ rows[j].center = f.center[j]
                 /\ rows[j].shift_center = f.shift_center[j]
                 /\ rows[j].amp = f.amp[j]
                 /\ rows[j].sigma = f.sigma[j]
                 /\ rows[j].gamma = f.gamma[j]
    /\ Len(df) = SeqSum([i \in DOMAIN line_stats |-> Len(line_stats[i].center)])

(* C9 as stated: a build over a grid that is not rectangular fails with     *)
(* IrregularGridError and leaves no bank.                                   *)
C9_IrregularGridError ==
  (IrregularBuild /\ pc = "failed") =>
    /\ err = "IrregularGridError"
    /\ interpolators = <<>>
    /\ pickle = <<"absent">>

(* C9 amended: a build over a grid that is not rectangular fails with the   *)
(* ValueError of the reshape; no interpolator list is returned and no bank  *)
(* file is ever written.                                                    *)
C9_IrregularFailsNoBank ==
  IrregularBuild =>
    /\ pc \in {"start", "read", "exploded", "optimized", "failed"}
    /\ interpolators = <<>>
    /\ pickle = <<"absent">>
    /\ (pc = "failed" => err = "ValueError")

(* C9 case: three files that do not form a rectangular grid, and the build *)
(* has failed.                                                             *)
C9_Witness == IrregularBuild /\ pc = "failed" /\ err = "ValueError" /\ Cardinality(files) = 3
----------------------------------------------------------------------------
(* Vocabulary of the reconstruction properties *)

PointInBounds(p) == \A k \in DOMAIN interpolators : InBounds(interpolators[k], p)
AmpIsSentinel(k, p) ==
  LET r == Evaluate(interpolators[k], p) IN r.num[1] = Sentinel * r.den
NonSentinelLines(p) == {k \in DOMAIN interpolators : ~AmpIsSentinel(k, p)}
AboveThresholdRows(p) ==
  SelectSeq([k \in DOMAIN interpolators |-> Evaluate(interpolators[k], p)],
            LAMBDA r : r.num[1] > Threshold * r.den)
SinglePoint(p) == reconstruct1(WlGrid, p, interpolators)
NoSurvivor1(p) == PointInBounds(p) /\ NonSentinelLines(p) = {}
NoSurvivorN(p) == PointInBounds(p) /\ AboveThresholdRows(p) = <<>>

(* C3 as stated: reconstructn on a batch of one point gives the flux that   *)
(* reconstruct1 gives at that point, from the same lines.                   *)
C3_SinglePointAgreement ==
  (pc = "done" /\ op = "reconstructn" /\ Len(qpts) = 1) =>
    (SinglePoint(qpts[1]).kind = "flux" =>
       /\ res.kind = "flux"
       /\ res.flux = <<SinglePoint(qpts[1]).flux>>
       /\ res.sel = <<SinglePoint(qpts[1]).sel>>)

(* C4 as stated: in a batch that reconstructn completes, every line that    *)
(* reconstruct1 includes at a point is included by reconstructn there.      *)
C4_BatchSuperset ==
  (pc = "done" /\ op = "reconstructn" /\ res.kind = "flux") =>
    \A i \in DOMAIN qpts : Range(SinglePoint(qpts[i]).sel) \subseteq Range(res.sel[i])

(* C4 amended: the batch filter is the stricter one: every line that        *)
(* reconstructn includes at a point is included by reconstruct1 there.      *)
C4_BatchSubset ==
  (pc = "done" /\ op = "reconstructn") =>
    \A i \in DOMAIN qpts : Range(res.sel[i]) \subseteq Range(SinglePoint(qpts[i]).sel)

(* C4 case: a completed batch with a point where reconstructn keeps fewer   *)
(* lines than reconstruct1.                                                *)
C4_Witness ==
  /\ pc = "done" /\ op = "reconstructn" /\ res.kind = "flux"
  /\ \E i \in DOMAIN qpts :
       /\ Range(res.sel[i]) # Range(SinglePoint(qpts[i]).sel)
       /\ Range(res.sel[i]) \subseteq Range(SinglePoint(qpts[i]).sel)

(* C5: at a point inside the grid, the state reconstruct1 builds holds one  *)
(* row for each interpolator whose amplitude there is not the sentinel and  *)
(* no other row; at a grid coordinate these are exactly the lines fitted    *)
(* there, each with its fitted values.                                      *)
C5_StateIsNonSentinelLines ==
  (pc = "done" /\ op = "reconstruct1" /\ PointInBounds(qpts[1])) =>
    LET p == qpts[1]
    IN /\ Range(res.sel) = NonSentinelLines(p)
       /\ Len(res.sel) = Cardinality(NonSentinelLines(p))
       /\ Len(res.outputs) = Len(res.sel)
       /\ \A j \in DOMAIN res.outputs :
            res.outputs[j] = Evaluate(interpolators[res.sel[j]], p)
       /\ (res.kind = "flux" <=> NonSentinelLines(p) # {})
       /\ \A f \in files : CoordOf(f) = p =>
            /\ \A k \in DOMAIN interpolators :
                 k \in Range(res.sel) <=> HasLine(f, interpolators[k].line)
            /\ \A j \in DOMAIN res.outputs :
                 res.outputs[j].num =
                   Times(Fitted(f, interpolators[res.sel[j]].line), res.outputs[j].den)

(* C5 case: a bank of two lines and a reconstruction at a grid coordinate   *)
(* where only one of them was fitted.                                      *)
C5_Witness ==
  /\ pc = "done" /\ op = "reconstruct1" /\ res.kind = "flux"
  /\ Len(interpolators) = 2 /\ Len(res.sel) = 1
  /\ \E f \in files : CoordOf(f) = qpts[1]

(* C8 as stated: with no surviving line reconstruct1 fails with             *)
(* EmptyLineSetError.                                                       *)
C8_EmptyLineSetError ==
  (pc = "done" /\ op = "reconstruct1" /\ NoSurvivor1(qpts[1])) =>
    /\ res.kind = "error"
    /\ res.err = "EmptyLineSetError"
    /\ res.flux = <<>>

(* C8 amended: with no surviving line reconstruct1 fails with the           *)
(* ValueError of np.vstack and returns no flux; a batch with such a point   *)
(* fails as a whole with an exception and returns no flux.                  *)
C8_EmptyLineSetFails ==
  /\ (pc = "done" /\ op = "reconstruct1" /\ NoSurvivor1(qpts[1])) =>
       /\ res.kind = "error"
       /\ res.err = "ValueError"
       /\ res.flux = <<>>
  /\ (pc = "done" /\ op = "reconstructn" /\ \E i \in DOMAIN qpts : NoSurvivorN(qpts[i])) =>
       /\ res.kind = "error"
       /\ res.err \in {"ValueError", "IndexError"}
       /\ res.flux = <<>>

(* C8 case: a bank with at least one line and a reconstruction at a point   *)
(* where no line survives.                                                 *)
C8_Witness ==
  /\ pc = "done" /\ op = "reconstruct1"
  /\ interpolators # <<>>
  /\ NoSurvivor1(qpts[1])
  /\ res.err = "ValueError"

(* C10 as stated: for a batch of points inside the grid, each with a        *)
(* surviving line, reconstructn returns one flux row per point in input     *)
(* order, row i computed from the lines surviving at point i alone, and     *)
(* calls each interpolator once.                                            *)
C10_OneRowPerPoint ==
  ( /\ pc = "done" /\ op = "reconstructn" /\ qpts # <<>>
    /\ \A i \in DOMAIN qpts : PointInBounds(qpts[i]) /\ AboveThresholdRows(qpts[i]) # <<>> ) =>
    /\ res.kind = "flux"
    /\ Len(res.flux) = Len(qpts)
    /\ \A i \in DOMAIN qpts :
         res.flux[i] = nan_to_num(SLEForward(WlGrid, AboveThresholdRows(qpts[i])))
    /\ res.calls = Len(interpolators)
====
